---- MODULE Spec2Model ----
(***************************************************************************)
(* Client-side session store (AuthContext.jsx, AuthProvider), the token    *)
(* bearing HTTP adapter (services/api.js) and the error normaliser         *)
(* (utils/error.js) of the tailored-api-response frontend.                 *)
(*                                                                         *)
(* JavaScript values are tagged records: every value has a field `type`,   *)
(* so that null, undefined, strings, numbers, arrays and objects can be    *)
(* compared with one another the way the code's tests compare them.        *)
(***************************************************************************)
EXTENDS Integers, Sequences, FiniteSets, TLC

(***************************************************************************)
(* Bounds of the model.                                                    *)
(***************************************************************************)
\* Number of asynchronous session operations that may be in flight at once.
MaxInFlight == 2

(***************************************************************************)
(* JavaScript values.                                                      *)
(***************************************************************************)
Null == [type |-> "null"]
Undefined == [type |-> "undefined"]
Str(s) == [type |-> "string", s |-> s]
Num(n) == [type |-> "number", n |-> n]
Arr(items) == [type |-> "array", items |-> items]
\* A plain object; `v` is the record of its own properties.
Obj(fields) == [type |-> "object", class |-> "Object", v |-> fields]
\* An object for which `instanceof Error` holds.
Err(fields) == [type |-> "object", class |-> "Error", v |-> fields]

\* `!!x`
Truthy(x) ==
  CASE x.type = "null" -> FALSE
    [] x.type = "undefined" -> FALSE
    [] x.type = "string" -> x.s # ""
    [] x.type = "number" -> x.n # 0
    [] OTHER -> TRUE

\* `x?.k`: undefined for null, undefined, primitives and missing properties.
Get(x, k) ==
  IF x.type = "object" /\ k \in DOMAIN x.v THEN x.v[k] ELSE Undefined

\* `a || b`
Or(a, b) == IF Truthy(a) THEN a ELSE b

\* `a ?? b`
Coalesce(a, b) == IF a.type \in {"null", "undefined"} THEN b ELSE a

IsString(x) == x.type = "string"
IsArray(x) == x.type = "array"
IsErrorInstance(x) == x.type = "object" /\ x.class = "Error"

\* `{ ...o, [k]: val }` for an object o.
WithProp(o, k, val) ==
  [o EXCEPT !.v = [p \in (DOMAIN o.v) \cup {k} |-> IF p = k THEN val ELSE o.v[p]]]

(***************************************************************************)
(* JSON.stringify and JSON.parse, as far as the store uses them: the user  *)
(* profile is written to localStorage as JSON text and read back on mount. *)
(***************************************************************************)
\* Property enumeration order of the objects that are serialised.
KeyOrder ==
  <<"id", "email", "package_tier", "status", "statusText", "data", "detail",
    "loc", "msg", "type", "message", "error", "code", "response">>

Digits == <<"0", "1", "2", "3", "4", "5", "6", "7", "8", "9">>
RECURSIVE NumText(_)
\* String(n) for a natural number n.
NumText(n) == IF n < 10 THEN Digits[n + 1] ELSE NumText(n \div 10) \o Digits[(n % 10) + 1]

RECURSIVE Join(_, _)
\* Array.prototype.join for an array of strings.
Join(strs, sep) ==
  IF strs = <<>> THEN ""
  ELSE IF Len(strs) = 1 THEN strs[1]
  ELSE strs[1] \o sep \o Join(Tail(strs), sep)

RECURSIVE JSONmembers(_, _, _)
RECURSIVE JSONitems(_, _)
RECURSIVE JSONtext(_)
\* The text of a value; an object's properties whose value is undefined are
\* omitted, as JSON.stringify omits them.
JSONtext(x) ==
  CASE x.type = "null" -> "null"
    [] x.type = "string" -> "\"" \o x.s \o "\""
    [] x.type = "number" -> NumText(x.n)
    [] x.type = "array" -> "[" \o JSONitems(x.items, 1) \o "]"
    [] x.type = "object" -> "{" \o JSONmembers(x, 1, TRUE) \o "}"
    [] OTHER -> "null"

JSONitems(items, i) ==
  IF i > Len(items) THEN ""
  ELSE (IF i = 1 THEN "" ELSE ",") \o JSONtext(items[i]) \o JSONitems(items, i + 1)

JSONmembers(x, i, first) ==
  IF i > Len(KeyOrder) THEN ""
  ELSE LET k == KeyOrder[i] IN
       IF k \in DOMAIN x.v /\ x.v[k].type # "undefined"
       THEN (IF first THEN "" ELSE ",") \o "\"" \o k \o "\":" \o JSONtext(x.v[k])
            \o JSONmembers(x, i + 1, FALSE)
       ELSE JSONmembers(x, i + 1, first)

\* The default conversion of an object to a string.
ObjectToString(x) == Str("[object Object]")

\* JSON.stringify(x), a string value.
JSONstringify(x) == Str(JSONtext(x))

(***************************************************************************)
(* The backend's answers and the adapter's failures the model draws from.  *)
(***************************************************************************)
PackageTiers == {"free", "pro", "enterprise"}

UserA == Obj([id |-> Str("1"), email |-> Str("a@tata.co.in"), package_tier |-> Str("free")])
UserB == Obj([id |-> Str("2"), email |-> Str("b@tata.co.in"), package_tier |-> Str("pro")])
BackendUsers == {UserA, UserB}

\* Objects JSON.parse can yield for texts the store has written: a parsed
\* object never has a property whose value is undefined.
ParsedObjects ==
  {WithProp(u, "package_tier", Str(t)) : u \in BackendUsers, t \in PackageTiers}
    \cup {Obj([id |-> u.v.id, email |-> u.v.email]) : u \in BackendUsers}

\* JSON.parse(text); a text that is no JSON throws, modelled by the value
\* ParseThrows that the callers test for.
ParseThrows == [type |-> "throws"]
JSONparse(text) ==
  IF text.s = "null" THEN Null
  ELSE IF \E o \in ParsedObjects : JSONtext(o) = text.s
       THEN CHOOSE o \in ParsedObjects : JSONtext(o) = text.s
       ELSE ParseThrows

(***************************************************************************)
(* utils/error.js: extractErrorMessage and parseValidationErrors.          *)
(***************************************************************************)
\* `data.detail.map(item => ...).filter(Boolean)` of the response branch: an
\* entry contributes itself when it is a string, else its msg when that is a
\* string; empty strings are filtered out.
RECURSIVE DetailMessages(_)
DetailMessages(items) ==
  IF items = <<>> THEN <<>>
  ELSE LET item == Head(items)
           m == IF ~Truthy(item) THEN Null
                ELSE IF IsString(item) THEN item
                ELSE IF IsString(Get(item, "msg")) THEN Get(item, "msg")
                ELSE Null
       IN (IF Truthy(m) THEN <<m.s>> ELSE <<>>) \o DetailMessages(Tail(items))

\* `err.detail.map(item => typeof item?.msg === "string" ? item.msg : null)
\* .filter(Boolean)` of the non-response branch.
RECURSIVE MsgFields(_)
MsgFields(items) ==
  IF items = <<>> THEN <<>>
  ELSE LET m == Get(Head(items), "msg")
       IN (IF IsString(m) /\ Truthy(m) THEN <<m.s>> ELSE <<>>) \o MsgFields(Tail(items))

\* `${response.status || ""} ${response.statusText}`.trim(), for a status
\* text that itself carries no surrounding white space.
StatusLine(response) ==
  LET status == Get(response, "status")
      text == Get(response, "statusText").s
  IN IF Truthy(status) /\ status.type = "number"
     THEN Str(NumText(status.n) \o " " \o text)
     ELSE Str(text)

\* The message found in a response (`err.response`, truthy), or Undefined
\* when the response branch falls through.
ResponseMessage(response) ==
  LET data == Get(response, "data")
      detail == Get(data, "detail")
      fromStatus == IF Truthy(Get(response, "statusText"))
                    THEN StatusLine(response) ELSE Undefined
  IN IF IsString(data) THEN data
     ELSE IF Truthy(data) /\ data.type = "object"
     THEN IF IsString(detail) THEN detail
          ELSE IF IsArray(detail) /\ DetailMessages(detail.items) # <<>>
          THEN Str(Join(DetailMessages(detail.items), "; "))
          ELSE IF IsString(Get(data, "message")) THEN Get(data, "message")
          ELSE IF IsString(Get(data, "msg")) THEN Get(data, "msg")
          ELSE IF IsString(Get(data, "error")) THEN Get(data, "error")
          ELSE fromStatus
     ELSE fromStatus

\* An object that refers to itself: JSON.stringify throws on it.
Cyclic == Obj([self |-> [type |-> "cycle"]])
StringifyThrows(x) ==
  x.type = "object" /\ \E k \in DOMAIN x.v : x.v[k].type = "cycle"

\* A last resort that hands the value back as it is.
NoConversion(x) == x

\* String(x) of the last resort.
JSString(x) ==
  CASE x.type = "string" -> x
    [] x.type = "number" -> Str(NumText(x.n))
    [] x.type = "null" -> Str("null")
    [] x.type = "undefined" -> Str("undefined")
    [] OTHER -> Str("[object Object]")

extractErrorMessage(err, fallback) ==
  IF ~Truthy(err) THEN fallback
  ELSE IF IsString(err) THEN err
  ELSE IF IsErrorInstance(err) /\ Truthy(Get(err, "message")) THEN Get(err, "message")
  ELSE LET response == Get(err, "response")
           fromResponse == IF Truthy(response) THEN ResponseMessage(response) ELSE Undefined
           detail == Get(err, "detail")
       IN IF fromResponse # Undefined THEN fromResponse
          ELSE IF IsString(detail) THEN detail
          ELSE IF IsArray(detail) /\ MsgFields(detail.items) # <<>>
          THEN Str(Join(MsgFields(detail.items), "; "))
          ELSE IF IsString(Get(err, "msg")) THEN Get(err, "msg")
          ELSE IF IsString(Get(err, "message")) THEN Get(err, "message")
          ELSE IF err.type \in {"object", "array"}
          THEN IF StringifyThrows(err) THEN fallback ELSE JSONstringify(err)
          ELSE JSString(Coalesce(err, fallback))

\* Container names that are never taken for a field name.
ReservedLoc == {"body", "query", "path", "form", "header"}

\* The last segment of loc, whatever it is.
LastSegment(loc, i) == IF i < 1 THEN Undefined ELSE loc[i]

\* The field an entry's loc names: the last string segment that is no
\* container name, or Undefined.
RECURSIVE FieldOfLoc(_, _)
FieldOfLoc(loc, i) ==
  IF i < 1 THEN Undefined
  ELSE IF IsString(loc[i]) /\ loc[i].s \notin ReservedLoc THEN loc[i]
  ELSE FieldOfLoc(loc, i - 1)

\* fieldErrors is an object of arrays; it is kept as the sequence of its
\* properties [field, msgs] in insertion order.
HasField(fieldErrors, f) == \E i \in 1..Len(fieldErrors) : fieldErrors[i].field = f

\* pushFieldError putting a field's newest message first.
pushFieldErrorFront(result, field, message) ==
  IF ~Truthy(field) \/ ~IsString(field)
  THEN IF Truthy(message)
       THEN [result EXCEPT !.nonFieldErrors = Append(@, message.s)]
       ELSE result
  ELSE LET withKey == IF HasField(result.fieldErrors, field.s)
                      THEN result.fieldErrors
                      ELSE Append(result.fieldErrors, [field |-> field.s, msgs |-> <<>>])
       IN [result EXCEPT !.fieldErrors =
             [i \in 1..Len(withKey) |->
                IF withKey[i].field = field.s /\ Truthy(message)
                THEN [withKey[i] EXCEPT !.msgs = <<message.s>> \o @]
                ELSE withKey[i]]]

\* pushFieldError taking every message for a non-field one.
pushNonFieldOnly(result, field, message) ==
  IF Truthy(message)
  THEN [result EXCEPT !.nonFieldErrors = Append(@, message.s)]
  ELSE result

\* pushFieldError(field, message) on a result.
pushFieldError(result, field, message) ==
  IF ~Truthy(field) \/ ~IsString(field)
  THEN IF Truthy(message)
       THEN [result EXCEPT !.nonFieldErrors = Append(@, message.s)]
       ELSE result
  ELSE LET withKey == IF HasField(result.fieldErrors, field.s)
                      THEN result.fieldErrors
                      ELSE Append(result.fieldErrors, [field |-> field.s, msgs |-> <<>>])
       IN [result EXCEPT !.fieldErrors =
             [i \in 1..Len(withKey) |->
                IF withKey[i].field = field.s /\ Truthy(message)
                THEN [withKey[i] EXCEPT !.msgs = Append(@, message.s)]
                ELSE withKey[i]]]

\* detail.forEach(item => ...) over the entries from index i on.
RECURSIVE EachDetail(_, _, _)
EachDetail(result, items, i) ==
  IF i > Len(items) THEN result
  ELSE LET item == items[i]
           msg == IF IsString(Get(item, "msg")) THEN Get(item, "msg")
                  ELSE IF IsString(item) THEN item ELSE Undefined
           loc == IF IsArray(Get(item, "loc")) THEN Get(item, "loc").items ELSE <<>>
           found == FieldOfLoc(loc, Len(loc))
           field == IF found = Str("username") THEN Str("email") ELSE found
       IN IF ~Truthy(item) THEN EachDetail(result, items, i + 1)
          ELSE EachDetail(pushFieldError(result, field, msg), items, i + 1)

\* A result that starts out with a message of its own.
SeededParse ==
  [fieldErrors |-> <<>>, nonFieldErrors |-> <<"Validation failed">>, status |-> Undefined]

EmptyParse == [fieldErrors |-> <<>>, nonFieldErrors |-> <<>>, status |-> Undefined]

parseValidationErrors(err) ==
  LET response == Get(err, "response")
      status == Coalesce(Get(response, "status"), Get(err, "status"))
      result == [EmptyParse EXCEPT !.status = IF status.type = "number" THEN status ELSE Undefined]
      data == Coalesce(Get(response, "data"), err)
      detail == Get(data, "detail")
      nonField(m) == [result EXCEPT !.nonFieldErrors = Append(@, m.s)]
  IN IF ~Truthy(data) THEN result
     ELSE IF IsString(data) THEN nonField(data)
     ELSE IF IsArray(detail) THEN EachDetail(result, detail.items, 1)
     ELSE IF IsString(detail) THEN nonField(detail)
     ELSE IF IsString(Get(data, "message")) THEN nonField(Get(data, "message"))
     ELSE IF IsString(Get(data, "msg")) THEN nonField(Get(data, "msg"))
     ELSE IF IsString(Get(data, "error")) THEN nonField(Get(data, "error"))
     ELSE result

(***************************************************************************)
(* services/api.js: the adapter's module state, its interceptors and the   *)
(* gateway functions.                                                      *)
(***************************************************************************)
\* What the transport rejects with, before the response interceptor.
Response(status, statusText, data) ==
  Obj([status |-> Num(status), statusText |-> Str(statusText), data |-> data])

AxiosError(message, code, response) ==
  Err([message |-> Str(message), code |-> Str(code), response |-> response])

Entry(loc, msg) ==
  Obj([loc |-> Arr(loc), msg |-> Str(msg), type |-> Str("value_error")])

ValidationBody ==
  Obj([detail |-> Arr(<<Entry(<<Str("body"), Str("email")>>, "invalid email"),
                        Entry(<<Str("body"), Str("username")>>, "field required"),
                        Entry(<<Str("body")>>, "malformed body")>>)])

Raw422 ==
  AxiosError("Request failed with status code 422", "ERR_BAD_REQUEST",
             Response(422, "Unprocessable Entity", ValidationBody))
\* A 422 whose entries all name a field.
FieldsBody ==
  Obj([detail |-> Arr(<<Entry(<<Str("body"), Str("email")>>, "invalid email"),
                        Entry(<<Str("body"), Str("username")>>, "field required")>>)])
Raw422Fields ==
  AxiosError("Request failed with status code 422", "ERR_BAD_REQUEST",
             Response(422, "Unprocessable Entity", FieldsBody))
Raw400 ==
  AxiosError("Request failed with status code 400", "ERR_BAD_REQUEST",
             Response(400, "Bad Request", Obj([detail |-> Str("Email already registered")])))
Raw401 ==
  AxiosError("Request failed with status code 401", "ERR_BAD_REQUEST",
             Response(401, "Unauthorized", Obj([detail |-> Str("Could not validate credentials")])))
RawNetwork == AxiosError("Network Error", "ERR_NETWORK", Undefined)
RawTimeout == AxiosError("timeout of 15000ms exceeded", "ECONNABORTED", Undefined)

TransportErrors == {Raw422, Raw422Fields, Raw400, Raw401, RawNetwork, RawTimeout}
\* The transport failures the session operations are run against.
SessionTransportErrors == {Raw422Fields, Raw401, RawNetwork}

Friendly401 ==
  "Unauthorized (401): Your session may be invalid or expired. Please log in again."
\* First line of the multi-line network hint; the rest names the base URL.
FriendlyNetwork == "NetworkError: Failed to reach the backend."

\* The test `(error?.message || "").toLowerCase().includes("network")` for
\* the messages the transport produces.
MentionsNetwork(message) == message = Str("Network Error")

\* A 401 rewrapped without its response.
RejectedBare(error) ==
  IF Get(Get(error, "response"), "status") = Num(401)
  THEN Err([message |-> Str(Friendly401), original |-> error])
  ELSE error

\* The response interceptor's rejection handler: what the caller catches.
ResponseRejected(error) ==
  LET response == Get(error, "response")
      isNetworkIssue ==
        \/ (~Truthy(response)
              /\ (Get(error, "code") = Str("ERR_NETWORK")
                    \/ MentionsNetwork(Get(error, "message"))))
        \/ Get(error, "message") = Str("Network Error")
  IN IF Get(response, "status") = Num(401)
     THEN Err([message |-> Str(Friendly401), original |-> error, response |-> response])
     ELSE IF isNetworkIssue
     THEN Err([message |-> Str(FriendlyNetwork), original |-> error, response |-> response])
     ELSE error

\* Every failure a gateway call can reject with.
Failures == {ResponseRejected(e) : e \in SessionTransportErrors}

\* setToken(token)
setToken(t) == Or(t, Null)

\* A request interceptor that attaches nothing.
NoAuthorization(current) == Undefined

\* The request interceptor: the Authorization header the request leaves
\* with, given the module's currentToken.
Authorization(current) ==
  IF Truthy(current) THEN Str("Bearer " \o current.s) ELSE Undefined

Request(method, path, current) ==
  [method |-> method, path |-> path, Authorization |-> Authorization(current)]

\* Response bodies (res.data) of the three calls the store makes.
AccessTokens == {"t1", "t2"}
TokenResponses ==
  {Obj([access_token |-> Str(t), token_type |-> Str("bearer")]) : t \in AccessTokens}
    \cup {Obj([token_type |-> Str("bearer")]),
          Obj([access_token |-> Str(""), token_type |-> Str("bearer")])}
DashboardResponses ==
  {Obj([user |-> u, features |-> Arr(<<>>)]) : u \in BackendUsers}
    \cup {Obj([features |-> Arr(<<>>)])}
\* The plan call answers with the tier the account now has, which need not
\* be the tier asked for.
PlanResponses == {Obj([package_tier |-> Str("pro")])}
\* The tiers the plan form asks for.
RequestedTiers == {"pro", "enterprise"}

(***************************************************************************)
(* context/AuthContext.jsx: the session store.                             *)
(***************************************************************************)
VARIABLES
  token,             \* useState: the bearer token (a JS value)
  user,              \* useState: the profile object or null
  loading,           \* useState: boolean
  error,             \* useState: whatever setError was given last
  validationErrors,  \* useState: field errors, as [field, msgs] in order
  localStorage,      \* the two durable entries; Absent when the key is unset
  currentToken,      \* api.js module variable
  inflight,          \* the suspended invocations, by slot
  ret,               \* the handler step just taken and what it returned
  sent,              \* the requests that step issued
  delivered          \* the response body or failure that step received

vars ==
  <<token, user, loading, error, validationErrors, localStorage, currentToken,
    inflight, ret, sent, delivered>>

TOKEN_KEY == "auth_token"
USER_KEY == "auth_user"

Absent == [type |-> "absent"]
\* localStorage.getItem(key)
getItem(ls, key) == IF ls[key] = Absent THEN Null ELSE ls[key]
\* localStorage.setItem(key, value) with a string value
setItem(ls, key, value) == [ls EXCEPT ![key] = value]
\* localStorage.removeItem(key)
removeItem(ls, key) == [ls EXCEPT ![key] = Absent]

\* The storage half of persistToken(newToken); the state half is token'.
persistToken(ls, newToken) ==
  IF Truthy(newToken) THEN setItem(ls, TOKEN_KEY, newToken) ELSE removeItem(ls, TOKEN_KEY)

\* persistUser without its else branch: the value is always written.
persistUserAlwaysSet(ls, u) == setItem(ls, USER_KEY, JSONstringify(u))

\* The storage half of persistUser(u); the state half is user'.
persistUser(ls, u) ==
  IF Truthy(u) THEN setItem(ls, USER_KEY, JSONstringify(u)) ELSE removeItem(ls, USER_KEY)

\* useState initialisers.
InitialToken(ls) == getItem(ls, TOKEN_KEY)
InitialUser(ls) ==
  LET raw == getItem(ls, USER_KEY)
  IN IF ~Truthy(raw) THEN Null
     ELSE IF JSONparse(raw) = ParseThrows THEN Null
     ELSE JSONparse(raw)

Slots == 1..MaxInFlight
Idle == [kind |-> "idle"]
\* A suspended invocation: what it awaits, its local tokenRes, the user of
\* its closure, its argument, and the paths it has requested so far.
Task(kind, await, closureUser, packageTier, paths) ==
  [kind |-> kind, await |-> await, tokenRes |-> Undefined, user |-> closureUser,
   packageTier |-> packageTier, paths |-> paths]
InFlight(i) == inflight[i] # Idle
AnyInFlight == \E i \in Slots : InFlight(i)
HasFreeSlot == \E i \in Slots : ~InFlight(i)
FreeSlot == CHOOSE i \in Slots : ~InFlight(i) /\ \A j \in Slots : ~InFlight(j) => i <= j

NoTier == "-"
None == [type |-> "none"]

\* The token test left out.
AlwaysHasToken(t) == TRUE

\* `token` as a condition: `if (!token)` takes the other branch.
HasToken(t) == Truthy(t)

\* `e?.response?.data || e?.message || fallback` of refreshProfile and
\* doUpdatePlan.
RawErrorValue(e, fallback) ==
  Or(Get(Get(e, "response"), "data"), Or(Get(e, "message"), Str(fallback)))

\* Whether the state an operation is invoked in holds an error or field
\* errors from an earlier attempt.
HadErrors == Truthy(error) \/ validationErrors # <<>>

\* A finally block that leaves loading as it is.
FinallySkipped == loading

\* The value the finally blocks give loading.
FinallyLoading == FALSE

Init ==
  /\ localStorage = [auth_token |-> Absent, auth_user |-> Absent]
  /\ token = Null
  /\ user = Null
  /\ loading = FALSE
  /\ error = Null
  /\ validationErrors = <<>>
  /\ currentToken = Null
  /\ inflight = [i \in Slots |-> Idle]
  /\ ret = [op |-> "mount", path |-> "early"]
  /\ sent = <<>>
  /\ delivered = None

\* The page is (re)loaded: module state is reset, the provider's state is
\* initialised from storage, and the two mount effects run (api.setToken,
\* then init, which returns at once without a token).
Mount ==
  LET t == InitialToken(localStorage)
  IN /\ token' = t
     /\ user' = InitialUser(localStorage)
     /\ error' = Null
     /\ validationErrors' = <<>>
     /\ currentToken' = setToken(t)
     /\ UNCHANGED localStorage
     /\ delivered' = None
     /\ IF ~HasToken(t)
        THEN /\ loading' = FALSE
             /\ inflight' = [i \in Slots |-> Idle]
             /\ sent' = <<>>
             /\ ret' = [op |-> "mount", path |-> "early"]
        ELSE /\ loading' = TRUE
             /\ inflight' = [i \in Slots |->
                  IF i = 1 THEN Task("init", "getDashboard", Null, NoTier, <<"/dashboard/me">>)
                  ELSE Idle]
             /\ sent' = <<Request("GET", "/dashboard/me", setToken(t))>>
             /\ ret' = [op |-> "mount", path |-> "invoke"]

\* init: the profile arrived.
InitResolved(i, data) ==
  /\ inflight[i].kind = "init"
  /\ LET u == Or(Get(data, "user"), Null)
     IN /\ user' = u
        /\ localStorage' = setItem(localStorage, USER_KEY, JSONstringify(u))
  /\ delivered' = data
  /\ loading' = FinallyLoading
  /\ inflight' = [inflight EXCEPT ![i] = Idle]
  /\ ret' = [op |-> "init", path |-> "return", paths |-> inflight[i].paths]
  /\ sent' = <<>>
  /\ UNCHANGED <<token, error, validationErrors, currentToken>>

\* doLogout without persistToken(null).
LogoutKeepsToken(ls) == persistUser(ls, Null)

\* doLogout(): the storage it leaves.
doLogoutStorage(ls) == persistUser(persistToken(ls, Null), Null)

\* init: the profile fetch failed; doLogout().
InitRejected(i, e) ==
  /\ inflight[i].kind = "init"
  /\ delivered' = e
  /\ token' = Null
  /\ user' = Null
  /\ error' = Null
  /\ validationErrors' = <<>>
  /\ localStorage' = doLogoutStorage(localStorage)
  /\ loading' = FinallyLoading
  /\ inflight' = [inflight EXCEPT ![i] = Idle]
  /\ ret' = [op |-> "init", path |-> "catch", paths |-> inflight[i].paths]
  /\ sent' = <<>>
  /\ UNCHANGED currentToken

\* An attempt that starts without resetting what the last one left.
StartAuthNoReset(kind, path) ==
  /\ HasFreeSlot
  /\ loading' = TRUE
  /\ inflight' = [inflight EXCEPT ![FreeSlot] = Task(kind, "token", Null, NoTier, <<path>>)]
  /\ sent' = <<Request("POST", path, currentToken)>>
  /\ ret' = [op |-> kind, path |-> "invoke", had |-> HadErrors]
  /\ delivered' = None
  /\ UNCHANGED <<token, user, error, validationErrors, localStorage, currentToken>>

\* The first half of doLogin and doSignup, up to the first await.
StartAuth(kind, path) ==
  /\ HasFreeSlot
  /\ error' = Null
  /\ validationErrors' = <<>>
  /\ loading' = TRUE
  /\ inflight' = [inflight EXCEPT ![FreeSlot] = Task(kind, "token", Null, NoTier, <<path>>)]
  /\ sent' = <<Request("POST", path, currentToken)>>
  /\ ret' = [op |-> kind, path |-> "invoke", had |-> HadErrors]
  /\ delivered' = None
  /\ UNCHANGED <<token, user, localStorage, currentToken>>

\* The token arrived: persistToken(tokenRes?.access_token), then the profile
\* fetch is issued before any effect has run.
TokenResolved(kind, i, tokenRes) ==
  /\ inflight[i].kind = kind /\ inflight[i].await = "token"
  /\ token' = Get(tokenRes, "access_token")
  /\ localStorage' = persistToken(localStorage, Get(tokenRes, "access_token"))
  /\ delivered' = tokenRes
  /\ inflight' = [inflight EXCEPT ![i] =
       [@ EXCEPT !.await = "getDashboard", !.tokenRes = tokenRes,
                 !.paths = Append(@, "/dashboard/me")]]
  /\ sent' = <<Request("GET", "/dashboard/me", currentToken)>>
  /\ ret' = [op |-> kind, path |-> "await"]
  /\ UNCHANGED <<user, loading, error, validationErrors, currentToken>>

\* The profile arrived: persistUser(dash?.user || null); return { ok: true }.
DashResolved(kind, i, dash) ==
  /\ inflight[i].kind = kind /\ inflight[i].await = "getDashboard"
  /\ LET u == Or(Get(dash, "user"), Null)
     IN /\ user' = u
        /\ localStorage' = persistUser(localStorage, u)
  /\ delivered' = dash
  /\ loading' = FinallyLoading
  /\ inflight' = [inflight EXCEPT ![i] = Idle]
  /\ ret' = [op |-> kind, path |-> "return", ok |-> TRUE, tokenRes |-> inflight[i].tokenRes,
             paths |-> inflight[i].paths]
  /\ sent' = <<>>
  /\ UNCHANGED <<token, error, validationErrors, currentToken>>

\* A catch block without persistToken(null).
KeepToken == token

\* The storage the catch blocks of doLogin and doSignup leave.
RollbackStorage(ls) == persistUser(persistToken(ls, Null), Null)
\* The token the catch blocks of doLogin and doSignup leave.
RollbackToken == Null

DoLogin == StartAuth("login", "/auth/login")
LoginTokenResolved(i, tokenRes) == TokenResolved("login", i, tokenRes)
LoginDashResolved(i, dash) == DashResolved("login", i, dash)

\* doLogin's catch, entered from either await.
LoginRejected(i, e) ==
  /\ inflight[i].kind = "login"
  /\ error' = extractErrorMessage(e, Str("Login failed"))
  /\ delivered' = e
  /\ ret' = [op |-> "login", path |-> "catch", at |-> inflight[i].await,
             ok |-> FALSE, error |-> e, tokenRes |-> inflight[i].tokenRes,
             paths |-> inflight[i].paths]
  /\ token' = RollbackToken
  /\ user' = Null
  /\ localStorage' = RollbackStorage(localStorage)
  /\ loading' = FinallyLoading
  /\ inflight' = [inflight EXCEPT ![i] = Idle]
  /\ sent' = <<>>
  /\ UNCHANGED <<validationErrors, currentToken>>

DoSignup == StartAuth("signup", "/auth/signup")
SignupTokenResolved(i, tokenRes) == TokenResolved("signup", i, tokenRes)
SignupDashResolved(i, dash) == DashResolved("signup", i, dash)

\* doSignup's catch, entered from either await.
SignupRejected(i, e) ==
  /\ inflight[i].kind = "signup"
  /\ LET parsed == parseValidationErrors(e)
     IN /\ validationErrors' = parsed.fieldErrors
        /\ error' = IF Len(parsed.nonFieldErrors) > 0
                    THEN Str(Join(parsed.nonFieldErrors, "; "))
                    ELSE extractErrorMessage(e, Str("Signup failed"))
  /\ delivered' = e
  /\ ret' = [op |-> "signup", path |-> "catch", at |-> inflight[i].await,
             ok |-> FALSE, error |-> e, tokenRes |-> inflight[i].tokenRes,
             paths |-> inflight[i].paths]
  /\ token' = RollbackToken
  /\ user' = Null
  /\ localStorage' = RollbackStorage(localStorage)
  /\ loading' = FinallyLoading
  /\ inflight' = [inflight EXCEPT ![i] = Idle]
  /\ sent' = <<>>
  /\ UNCHANGED currentToken

DoLogout ==
  /\ token' = Null
  /\ user' = Null
  /\ error' = Null
  /\ validationErrors' = <<>>
  /\ localStorage' = doLogoutStorage(localStorage)
  /\ ret' = [op |-> "logout", path |-> "return", repeated |-> (ret.op = "logout")]
  /\ sent' = <<>>
  /\ delivered' = None
  /\ UNCHANGED <<loading, currentToken, inflight>>

\* refreshProfile(), up to its await; without a token it returns null.
RefreshProfile ==
  /\ delivered' = None
  /\ IF ~HasToken(token)
     THEN /\ ret' = [op |-> "refreshProfile", path |-> "early", value |-> Null, paths |-> <<>>]
          /\ sent' = <<>>
          /\ UNCHANGED <<loading, inflight>>
     ELSE /\ HasFreeSlot
          /\ loading' = TRUE
          /\ inflight' = [inflight EXCEPT ![FreeSlot] =
               Task("refreshProfile", "getDashboard", Null, NoTier, <<"/dashboard/me">>)]
          /\ sent' = <<Request("GET", "/dashboard/me", currentToken)>>
          /\ ret' = [op |-> "refreshProfile", path |-> "invoke"]
  /\ UNCHANGED <<token, user, error, validationErrors, localStorage, currentToken>>

RefreshResolved(i, dash) ==
  /\ inflight[i].kind = "refreshProfile"
  /\ LET u == Or(Get(dash, "user"), Null)
     IN /\ user' = u
        /\ localStorage' = persistUser(localStorage, u)
        /\ ret' = [op |-> "refreshProfile", path |-> "return", value |-> u,
                   paths |-> inflight[i].paths]
  /\ delivered' = dash
  /\ loading' = FinallyLoading
  /\ inflight' = [inflight EXCEPT ![i] = Idle]
  /\ sent' = <<>>
  /\ UNCHANGED <<token, error, validationErrors, currentToken>>

\* A catch block that logs out, as init's does.
ForcedLogout(t) == Null

\* What refreshProfile's catch does to the token.
RefreshCatchToken(t) == t

RefreshRejected(i, e) ==
  /\ inflight[i].kind = "refreshProfile"
  /\ error' = RawErrorValue(e, "Failed to refresh profile")
  /\ delivered' = e
  /\ token' = RefreshCatchToken(token)
  /\ ret' = [op |-> "refreshProfile", path |-> "catch", value |-> Null,
             paths |-> inflight[i].paths]
  /\ loading' = FinallyLoading
  /\ inflight' = [inflight EXCEPT ![i] = Idle]
  /\ sent' = <<>>
  /\ UNCHANGED <<user, validationErrors, localStorage, currentToken>>

\* The requests doUpdatePlan issues once it has found a token.
UpdatePlanRequests(current) == <<Request("PUT", "/account/plan", current)>>

\* doUpdatePlan(packageTier), up to its await; without a token it fails at once.
DoUpdatePlan(packageTier) ==
  /\ delivered' = None
  /\ IF ~HasToken(token)
     THEN /\ error' = Str("Unauthorized")
          /\ ret' = [op |-> "updatePlan", path |-> "early", ok |-> FALSE,
                     error |-> Str("Unauthorized"), packageTier |-> packageTier,
                     paths |-> <<>>]
          /\ sent' = <<>>
          /\ UNCHANGED <<loading, inflight, validationErrors>>
     ELSE /\ HasFreeSlot
          /\ error' = Null
          /\ validationErrors' = <<>>
          /\ loading' = TRUE
          /\ inflight' = [inflight EXCEPT ![FreeSlot] =
               Task("updatePlan", "updatePlan", user, packageTier, <<"/account/plan">>)]
          /\ sent' = UpdatePlanRequests(currentToken)
          /\ ret' = [op |-> "updatePlan", path |-> "invoke", packageTier |-> packageTier,
                     had |-> HadErrors]
  /\ UNCHANGED <<token, user, localStorage, currentToken>>

\* The closure's user stored back without the new tier.
StaleUser(closureUser, updated) == closureUser

\* `user ? { ...user, package_tier: updated?.package_tier } : user`, with the
\* user of the closure.
NextUser(closureUser, updated) ==
  IF Truthy(closureUser)
  THEN WithProp(closureUser, "package_tier", Get(updated, "package_tier"))
  ELSE closureUser

UpdatePlanResolved(i, updated) ==
  /\ inflight[i].kind = "updatePlan"
  /\ LET nextUser == NextUser(inflight[i].user, updated)
     IN /\ user' = nextUser
        /\ localStorage' = persistUser(localStorage, nextUser)
  /\ delivered' = updated
  /\ ret' = [op |-> "updatePlan", path |-> "return", ok |-> TRUE, plan |-> updated,
             packageTier |-> inflight[i].packageTier, closureUser |-> inflight[i].user,
             paths |-> inflight[i].paths]
  /\ loading' = FinallyLoading
  /\ inflight' = [inflight EXCEPT ![i] = Idle]
  /\ sent' = <<>>
  /\ UNCHANGED <<token, error, validationErrors, currentToken>>

\* doUpdatePlan without its catch: the failure leaves through the finally
\* block and reaches the caller.
UpdatePlanRethrows(i, e) ==
  /\ inflight[i].kind = "updatePlan"
  /\ delivered' = e
  /\ ret' = [op |-> "updatePlan", path |-> "throw", error |-> e,
             packageTier |-> inflight[i].packageTier, paths |-> inflight[i].paths]
  /\ loading' = FinallyLoading
  /\ inflight' = [inflight EXCEPT ![i] = Idle]
  /\ sent' = <<>>
  /\ UNCHANGED <<token, user, error, validationErrors, localStorage, currentToken>>

\* A catch block that rolls the profile back, as doLogin's does.
CatchClearsUser(u) == Null

\* What doUpdatePlan's catch does to the user.
UpdatePlanCatchUser(u) == u

UpdatePlanRejected(i, e) ==
  /\ inflight[i].kind = "updatePlan"
  /\ error' = RawErrorValue(e, "Failed to update plan")
  /\ user' = UpdatePlanCatchUser(user)
  /\ delivered' = e
  /\ ret' = [op |-> "updatePlan", path |-> "catch", ok |-> FALSE, error |-> e,
             packageTier |-> inflight[i].packageTier, paths |-> inflight[i].paths]
  /\ loading' = FinallyLoading
  /\ inflight' = [inflight EXCEPT ![i] = Idle]
  /\ sent' = <<>>
  /\ UNCHANGED <<token, validationErrors, localStorage, currentToken>>

\* clearAuthError with the loading flag reset as well.
ClearAlsoLoading ==
  /\ error' = Null
  /\ validationErrors' = <<>>
  /\ loading' = FALSE
  /\ ret' = [op |-> "clearAuthError", path |-> "return", had |-> HadErrors]
  /\ sent' = <<>>
  /\ delivered' = None
  /\ UNCHANGED <<token, user, localStorage, currentToken, inflight>>

ClearAuthError ==
  /\ error' = Null
  /\ validationErrors' = <<>>
  /\ ret' = [op |-> "clearAuthError", path |-> "return", had |-> HadErrors]
  /\ sent' = <<>>
  /\ delivered' = None
  /\ UNCHANGED <<token, user, loading, localStorage, currentToken, inflight>>

\* The context value's `isAuthenticated: !!token`.
isAuthenticated == Truthy(token)

\* The effect `api.setToken(token)`, run after a render in which token changed.
TokenEffect ==
  /\ currentToken # setToken(token)
  /\ currentToken' = setToken(token)
  /\ ret' = [op |-> "effect", path |-> "return"]
  /\ sent' = <<>>
  /\ delivered' = None
  /\ UNCHANGED <<token, user, loading, error, validationErrors, localStorage, inflight>>

\* A suspended invocation is resumed with the outcome of its network call:
\* a body drawn from tokens, dashes or plans, or a failure drawn from fails.
Settle(i, tokens, dashes, plans, fails) ==
  \/ \E data \in dashes : InitResolved(i, data)
  \/ \E e \in fails : InitRejected(i, e)
  \/ \E tokenRes \in tokens : LoginTokenResolved(i, tokenRes)
  \/ \E dash \in dashes : LoginDashResolved(i, dash)
  \/ \E e \in fails : LoginRejected(i, e)
  \/ \E tokenRes \in tokens : SignupTokenResolved(i, tokenRes)
  \/ \E dash \in dashes : SignupDashResolved(i, dash)
  \/ \E e \in fails : SignupRejected(i, e)
  \/ \E dash \in dashes : RefreshResolved(i, dash)
  \/ \E e \in fails : RefreshRejected(i, e)
  \/ \E updated \in plans : UpdatePlanResolved(i, updated)
  \/ \E e \in fails : UpdatePlanRejected(i, e)

SettleAny(i) == Settle(i, TokenResponses, DashboardResponses, PlanResponses, Failures)

Next ==
  \/ Mount
  \/ DoLogin
  \/ DoSignup
  \/ DoLogout
  \/ RefreshProfile
  \/ \E packageTier \in RequestedTiers : DoUpdatePlan(packageTier)
  \/ ClearAuthError
  \/ TokenEffect
  \/ \E i \in Slots : SettleAny(i)

Spec == Init /\ [][Next]_vars

\* The store used one operation at a time: nothing is invoked while an
\* invocation is suspended (a reload may still cut an invocation short).
SeqNext ==
  \/ Mount
  \/ ~AnyInFlight /\ DoLogin
  \/ ~AnyInFlight /\ DoSignup
  \/ ~AnyInFlight /\ DoLogout
  \/ ~AnyInFlight /\ RefreshProfile
  \/ ~AnyInFlight /\ \E packageTier \in RequestedTiers : DoUpdatePlan(packageTier)
  \/ ~AnyInFlight /\ ClearAuthError
  \/ TokenEffect
  \/ \E i \in Slots : SettleAny(i)

SeqSpec == Init /\ [][SeqNext]_vars

\* The store run against a backend with one answer of each kind, for the
\* properties that depend on how invocations are scheduled and not on what
\* the answers hold.
FairTokens == {Obj([access_token |-> Str("t1"), token_type |-> Str("bearer")])}
FairDashes == {Obj([user |-> UserA, features |-> Arr(<<>>)])}
FairFails == {ResponseRejected(RawNetwork)}
SettleFair(i) == Settle(i, FairTokens, FairDashes, PlanResponses, FairFails)

FairNext ==
  \/ Mount
  \/ DoLogin
  \/ DoSignup
  \/ DoLogout
  \/ RefreshProfile
  \/ DoUpdatePlan("pro")
  \/ ClearAuthError
  \/ TokenEffect
  \/ \E i \in Slots : SettleFair(i)

\* Every network call eventually responds or fails (the transport's timeout
\* bounds it), and the continuation of a settled call is eventually run.
FairSpec == Init /\ [][FairNext]_vars /\ \A i \in Slots : WF_vars(SettleFair(i))

(***************************************************************************)
(* The error normaliser on its own: extractErrorMessage and                *)
(* parseValidationErrors called with values of every shape they test for.  *)
(***************************************************************************)
MaxEntries == 2

Fallbacks == {Str("An unexpected error occurred."), Str("Login failed")}

\* Response bodies, by the branch of extractErrorMessage they reach.
Bodies ==
  { Str("Service unavailable"),
    Obj([detail |-> Str("Email already registered")]),
    Obj([detail |-> Str("Email already registered"), message |-> Str("Bad request")]),
    Obj([message |-> Str("Bad request"), msg |-> Str("bad msg"), error |-> Str("E_BAD")]),
    Obj([msg |-> Str("bad msg"), error |-> Str("E_BAD")]),
    Obj([error |-> Str("E_BAD")]),
    Obj([detail |-> Obj([code |-> Num(7)])]),
    Obj([code |-> Num(7)]),
    ValidationBody,
    Obj([detail |-> Arr(<<>>)]),
    Null,
    Undefined }

Responses ==
  {Response(400, text, body) : text \in {"Bad Request", ""}, body \in Bodies}

\* Values handed to extractErrorMessage: primitives, plain objects, Error
\* instances, and failures with a response, as the transport raises them,
\* as the response interceptor rewraps them, and as plain objects.
ExtractInputs ==
  {Null, Undefined, Str(""), Str("boom"), Num(0), Num(42), Arr(<<>>), Cyclic,
   Err([message |-> Str("oops")]), Err([message |-> Str("")])}
    \cup (Bodies \ {Null, Undefined})
    \cup {AxiosError("Request failed with status code 400", "ERR_BAD_REQUEST", r) :
            r \in Responses}
    \cup {Obj([response |-> r]) : r \in Responses}
    \cup {ResponseRejected(e) : e \in TransportErrors}

\* The entries of a validation body: a loc of each kind with a message, an
\* empty message or none, an entry that is a bare string, and a null entry.
Locs ==
  { Arr(<<Str("body"), Str("email")>>),
    Arr(<<Str("body"), Str("username")>>),
    Arr(<<Str("body"), Str("items"), Num(0)>>),
    Arr(<<Str("email"), Str("body")>>),
    Arr(<<Str("body")>>),
    Arr(<<Str("query"), Num(0)>>),
    Arr(<<>>),
    Undefined }
EntryMsgs == {Str("too short"), Str("field required"), Str(""), Undefined}
DetailEntries ==
  {Obj([loc |-> loc, msg |-> msg]) : loc \in Locs, msg \in EntryMsgs}
    \cup {Str("not a valid request"), Null}

RECURSIVE SeqsUpTo(_, _)
\* The sequences over S of length at most n.
SeqsUpTo(S, n) ==
  IF n = 0 THEN {<<>>}
  ELSE LET shorter == SeqsUpTo(S, n - 1)
       IN shorter \cup {Append(q, x) : q \in shorter, x \in S}

ValidationFailures ==
  {AxiosError("Request failed with status code 422", "ERR_BAD_REQUEST",
              Response(422, "Unprocessable Entity", Obj([detail |-> Arr(items)]))) :
     items \in SeqsUpTo(DetailEntries, MaxEntries)}

ParseInputs == ValidationFailures \cup ExtractInputs

Loaded == [op |-> "mount", path |-> "early"]

\* A caller evaluates extractErrorMessage(err, fallback).
CallExtract(err, fallback) ==
  /\ ret = Loaded
  /\ ret' = [op |-> "extractErrorMessage", err |-> err, fallback |-> fallback,
             value |-> extractErrorMessage(err, fallback)]
  /\ UNCHANGED <<token, user, loading, error, validationErrors, localStorage,
                 currentToken, inflight, sent, delivered>>

\* A caller evaluates parseValidationErrors(err).
CallParse(err) ==
  /\ ret = Loaded
  /\ ret' = [op |-> "parseValidationErrors", err |-> err,
             value |-> parseValidationErrors(err)]
  /\ UNCHANGED <<token, user, loading, error, validationErrors, localStorage,
                 currentToken, inflight, sent, delivered>>

\* The caller has used the value.
CallDone ==
  /\ ret.op \in {"extractErrorMessage", "parseValidationErrors"}
  /\ ret' = Loaded
  /\ UNCHANGED <<token, user, loading, error, validationErrors, localStorage,
                 currentToken, inflight, sent, delivered>>

ErrorNext ==
  \/ \E err \in ExtractInputs, fallback \in Fallbacks : CallExtract(err, fallback)
  \/ \E err \in ParseInputs : CallParse(err)
  \/ CallDone

ErrorSpec == Init /\ [][ErrorNext]_vars

(***************************************************************************)
(* Properties.                                                             *)
(***************************************************************************)
StorageCleared == localStorage[TOKEN_KEY] = Absent /\ localStorage[USER_KEY] = Absent

\* The profile a reload would read back from storage.
StoredUser == InitialUser(localStorage)

Paired == Truthy(token) <=> Truthy(user)

Returned(op, path) == ret.op = op /\ ret.path = path

\* C1: when login fails, at the token call or at the profile fetch that
\* follows it, it returns with token and user null, both durable keys
\* removed, and { ok: false } carrying the failure it caught.
C1_LoginRollback ==
  Returned("login", "catch") =>
    /\ token = Null
    /\ user = Null
    /\ StorageCleared
    /\ ret.ok = FALSE
    /\ ret.error = delivered
    /\ delivered \in Failures

\* A login that had stored its token and then lost the profile fetch.
C1_Witness ==
  /\ Returned("login", "catch")
  /\ ret.at = "getDashboard"
  /\ Truthy(Get(ret.tokenRes, "access_token"))

\* C2: with operations run one at a time, whenever nothing is in flight
\* token and user are both present or both absent, a user is never present
\* without a token, and a token without a user is seen only while a login,
\* signup or startup fetch awaits the profile.
C2_TokenUserPaired ==
  /\ ~AnyInFlight => Paired
  /\ Truthy(user) => Truthy(token)
  /\ (Truthy(token) /\ ~Truthy(user)) =>
       \E i \in Slots : inflight[i].kind \in {"login", "signup", "init"}
                          /\ inflight[i].await = "getDashboard"

\* C3: when a login or signup that obtained a token and a profile returns
\* and nothing else is in flight, token and user are both present,
\* whatever was invoked while it was suspended.
C3_NoPartialInterleave ==
  (/\ ret.op \in {"login", "signup"}
   /\ ret.path = "return"
   /\ Truthy(Get(ret.tokenRes, "access_token"))
   /\ Truthy(Get(delivered, "user"))
   /\ ~AnyInFlight)
    => (Truthy(token) /\ Truthy(user))

\* C4: when the startup profile fetch fails, the session is left with
\* token and user null and both durable keys removed.
C4_StartupRecovery ==
  Returned("init", "catch") => (token = Null /\ user = Null /\ StorageCleared)

C4_Witness == Returned("init", "catch") /\ delivered \in Failures

\* C5: the step in which refreshProfile catches a failed profile fetch
\* leaves token, user and both durable entries as they were, sets error and
\* returns null.
C5_RefreshFailurePreserves ==
  [][(ret'.op = "refreshProfile" /\ ret'.path = "catch") =>
       /\ token' = token
       /\ user' = user
       /\ localStorage' = localStorage
       /\ Truthy(error')
       /\ ret'.value = Null]_vars

\* refreshProfile has caught a 401 while a token and a user were held.
C5_Witness ==
  /\ Returned("refreshProfile", "catch")
  /\ Get(Get(delivered, "response"), "status") = Num(401)
  /\ Truthy(token)
  /\ Truthy(user)
  /\ localStorage[TOKEN_KEY] = token

\* C6: loading is true whenever an asynchronous operation is in flight.
C6_LoadingWhileInFlight == AnyInFlight => loading = TRUE

\* C7: every started operation eventually completes, and whenever nothing
\* is in flight loading is false.
C7_LoadingCleared ==
  /\ \A i \in Slots : InFlight(i) ~> ~InFlight(i)
  /\ [](~AnyInFlight => loading = FALSE)

\* An operation has completed through its catch and left nothing in flight.
C7_Witness ==
  /\ ret.path = "catch"
  /\ ret.op \in {"login", "signup", "refreshProfile", "updatePlan", "init"}
  /\ ~AnyInFlight
  /\ loading = FALSE

\* C8: logout can be called in every state; it leaves token, user and error
\* null, validationErrors empty and both durable keys absent, issues no
\* request, and a second call right after changes nothing.
C8_LogoutIdempotent ==
  /\ [](ENABLED DoLogout)
  /\ [][ret'.op = "logout" =>
         /\ token' = Null
         /\ user' = Null
         /\ error' = Null
         /\ validationErrors' = <<>>
         /\ StorageCleared'
         /\ sent' = <<>>
         /\ inflight' = inflight
         /\ (ret.op = "logout" =>
               UNCHANGED <<token, user, loading, error, validationErrors, localStorage,
                           currentToken, inflight>>)]_vars

\* logout called twice in a row.
C8_Witness == ret.op = "logout" /\ ret.repeated

\* C9: updatePlan invoked without a token returns { ok: false } with the
\* error "Unauthorized", sets error to "Unauthorized" and issues no request.
C9_UpdatePlanUnauthorized ==
  [][(ret'.op = "updatePlan" /\ ret'.path \in {"early", "invoke"} /\ ~Truthy(token)) =>
       /\ ret'.path = "early"
       /\ ret'.ok = FALSE
       /\ ret'.error = Str("Unauthorized")
       /\ error' = Str("Unauthorized")
       /\ sent' = <<>>
       /\ inflight' = inflight]_vars

C9_Witness ==
  /\ Returned("updatePlan", "early")
  /\ ~Truthy(token)
  /\ error = Str("Unauthorized")

Range(seq) == {seq[n] : n \in 1..Len(seq)}

\* C10 as stated: after a successful updatePlan(t) the user's package_tier
\* is t, in memory and in storage, and no profile fetch was issued.
C10_TierIsRequested ==
  Returned("updatePlan", "return") =>
    /\ Get(user, "package_tier") = Str(ret.packageTier)
    /\ Get(StoredUser, "package_tier") = Str(ret.packageTier)
    /\ "/dashboard/me" \notin Range(ret.paths)

\* C10 as amended: after a successful updatePlan invoked with a user record
\* present, the user's package_tier is the tier of the plan response, in
\* memory and in storage; invoked without a user record it leaves the user
\* absent; either way the operation issued no profile fetch.
C10_TierIsReturned ==
  Returned("updatePlan", "return") =>
    /\ ret.plan = delivered
    /\ "/dashboard/me" \notin Range(ret.paths)
    /\ sent = <<>>
    /\ IF Truthy(ret.closureUser)
       THEN /\ Get(user, "package_tier") = Get(ret.plan, "package_tier")
            /\ Get(StoredUser, "package_tier") = Get(ret.plan, "package_tier")
       ELSE user = Null /\ localStorage[USER_KEY] = Absent

\* A free account has been moved to the tier it asked for.
C10_Witness ==
  /\ Returned("updatePlan", "return")
  /\ Get(ret.closureUser, "package_tier") = Str("free")
  /\ ret.packageTier = "pro"
  /\ Get(user, "package_tier") = Str("pro")

\* C11: the steps of an updatePlan that fails at the gateway call, its
\* invocation and its catch, leave token, user and both durable entries as
\* they were; the catch changes nothing but error and loading.
C11_UpdatePlanFailureFrame ==
  [][(ret'.op = "updatePlan" /\ ret'.path \in {"invoke", "catch"}) =>
       /\ token' = token
       /\ user' = user
       /\ localStorage' = localStorage
       /\ (ret'.path = "catch" =>
             /\ validationErrors' = validationErrors
             /\ currentToken' = currentToken
             /\ Truthy(error')
             /\ loading' = FALSE)]_vars

\* updatePlan has failed on a session that holds a token and a stored user.
C11_Witness ==
  /\ Returned("updatePlan", "catch")
  /\ delivered \in Failures
  /\ Truthy(token)
  /\ Truthy(user)
  /\ localStorage[USER_KEY] = JSONstringify(user)

\* C12: clearError can be called in every state; it sets error to null and
\* validationErrors to empty and leaves token, user, loading, both durable
\* entries and the operations in flight as they were.
C12_ClearErrorFrame ==
  /\ [](ENABLED ClearAuthError)
  /\ [][ret'.op = "clearAuthError" =>
         /\ error' = Null
         /\ validationErrors' = <<>>
         /\ UNCHANGED <<token, user, loading, localStorage, inflight>>]_vars

\* clearError has cleared something while an operation was in flight.
C12_Witness ==
  /\ ret.op = "clearAuthError"
  /\ ret.had
  /\ AnyInFlight
  /\ loading = TRUE

\* C13: right after login, signup or an authenticated updatePlan has been
\* invoked and has issued its first request, error is null and
\* validationErrors is empty.
C13_AttemptResets ==
  (ret.op \in {"login", "signup", "updatePlan"} /\ ret.path = "invoke") =>
    /\ error = Null
    /\ validationErrors = <<>>
    /\ Len(sent) = 1

\* An attempt started in a state that held errors from an earlier one.
C13_Witness ==
  /\ ret.op \in {"login", "signup", "updatePlan"}
  /\ ret.path = "invoke"
  /\ ret.had
  /\ error = Null

\* A value that is there: neither null nor undefined (`x != null`).
Present(x) == x # Null /\ x # Undefined

\* C14: isAuthenticated is true exactly when token != null.
C14_AuthenticatedIffToken == isAuthenticated <=> Present(token)

\* C15: the auth_token entry is present iff token is non-null and then
\* holds it verbatim, the auth_user entry is present iff user is non-null
\* and then holds its serialization, and a restart would rehydrate the
\* token and user held now.
C15_DurableMirror ==
  /\ (localStorage[TOKEN_KEY] # Absent) <=> Present(token)
  /\ Present(token) => localStorage[TOKEN_KEY] = token
  /\ (localStorage[USER_KEY] # Absent) <=> Present(user)
  /\ Present(user) => localStorage[USER_KEY] = JSONstringify(user)
  /\ InitialToken(localStorage) = Coalesce(token, Null)
  /\ InitialUser(localStorage) = Coalesce(user, Null)

\* C16: neither durable entry ever holds an empty string or a serialized
\* null, and whenever the token or the user is absent its key is removed.
C16_NoSentinelValue ==
  /\ localStorage[TOKEN_KEY] # Str("")
  /\ localStorage[USER_KEY] \notin {Str(""), Str("null")}
  /\ ~Present(token) => localStorage[TOKEN_KEY] = Absent
  /\ ~Present(user) => localStorage[USER_KEY] = Absent

\* C17: when signup fails, validationErrors is the fieldErrors of
\* parseValidationErrors(failure), error is its nonFieldErrors joined with
\* "; " when there are any and otherwise extractErrorMessage(failure,
\* "Signup failed"), and token and user are null. For the 422 whose entries
\* name email and username that is both messages under email and the
\* failure's own message; for the 401 it is no field errors and the body's
\* detail.
C17_SignupFailure ==
  Returned("signup", "catch") =>
    LET parsed == parseValidationErrors(delivered)
    IN /\ validationErrors = parsed.fieldErrors
       /\ error = IF parsed.nonFieldErrors # <<>>
                  THEN Str(Join(parsed.nonFieldErrors, "; "))
                  ELSE extractErrorMessage(delivered, Str("Signup failed"))
       /\ token = Null
       /\ user = Null
       /\ delivered = ResponseRejected(Raw422Fields) =>
            /\ validationErrors =
                 <<[field |-> "email", msgs |-> <<"invalid email", "field required">>]>>
            /\ error = Str("Request failed with status code 422")
       /\ delivered = ResponseRejected(Raw401) =>
            /\ validationErrors = <<>>
            /\ error = Str("Could not validate credentials")

\* A signup rejected with field errors only.
C17_Witness ==
  /\ Returned("signup", "catch")
  /\ delivered = ResponseRejected(Raw422Fields)
  /\ validationErrors # <<>>
  /\ IsString(error)

\* C18: error is always null or a string.
C18_ErrorIsString == error = Null \/ IsString(error)

\* C19: no operation ends by throwing; login, signup and updatePlan end
\* with a result whose ok is a boolean, true exactly when they return from
\* their try block (no call having failed) and false with the caught
\* failure as error otherwise; refreshProfile ends with a profile or null,
\* and with null when its call failed.
C19_NeverRejects ==
  /\ ret.path \in {"invoke", "await", "return", "catch", "early"}
  /\ (ret.op \in {"login", "signup", "updatePlan"} /\ ret.path \in {"return", "catch", "early"}) =>
       /\ ret.ok \in BOOLEAN
       /\ ret.ok <=> ret.path = "return"
       /\ ret.ok => delivered \notin Failures
       /\ delivered \in Failures => (~ret.ok /\ ret.error = delivered)
  /\ (ret.op = "refreshProfile" /\ ret.path \in {"return", "catch", "early"}) =>
       /\ ret.value = Null \/ ret.value \in BackendUsers
       /\ delivered \in Failures => ret.value = Null

\* A failed plan update has been handed to the caller as a result.
C19_Witness ==
  /\ Returned("updatePlan", "catch")
  /\ delivered = ResponseRejected(Raw401)
  /\ ret.ok = FALSE
  /\ ret.error = delivered

\* C20: refreshProfile invoked without a token returns null, issues no
\* request and leaves token, user, loading, error, validationErrors, both
\* durable entries and the operations in flight as they were.
C20_RefreshNoop ==
  [][(ret'.op = "refreshProfile" /\ ret'.path \in {"early", "invoke"} /\ ~Truthy(token)) =>
       /\ ret'.path = "early"
       /\ ret'.value = Null
       /\ sent' = <<>>
       /\ UNCHANGED <<token, user, loading, error, validationErrors, localStorage,
                      currentToken, inflight>>]_vars

\* refreshProfile has returned at once and left an earlier error in place.
C20_Witness ==
  /\ Returned("refreshProfile", "early")
  /\ ~Truthy(token)
  /\ Truthy(error)

(***************************************************************************)
(* Properties of the error normaliser.                                     *)
(***************************************************************************)
Extracted == ret.op = "extractErrorMessage"
Parsed == ret.op = "parseValidationErrors"

\* C21: extractErrorMessage(x, fallback) returns x for every string x,
\* the empty string included.
C21_StringVerbatim == (Extracted /\ IsString(ret.err)) => ret.value = ret.err

\* The text the response body of a failure offers: the body itself when it
\* is a string, else its detail, message, msg or error, the first of them
\* that is a string; Undefined when the body offers none or lists entries.
BodyText(err) ==
  LET data == Get(Get(err, "response"), "data")
  IN IF IsString(data) THEN data
     ELSE IF IsArray(Get(data, "detail")) THEN Undefined
     ELSE IF IsString(Get(data, "detail")) THEN Get(data, "detail")
     ELSE IF IsString(Get(data, "message")) THEN Get(data, "message")
     ELSE IF IsString(Get(data, "msg")) THEN Get(data, "msg")
     ELSE IF IsString(Get(data, "error")) THEN Get(data, "error")
     ELSE Undefined

\* C22: for a failure whose response body offers a text, extractErrorMessage
\* returns that text, also when the failure is an Error with a message.
C22_BodyBeforeMessage ==
  (Extracted /\ BodyText(ret.err) # Undefined) => ret.value = BodyText(ret.err)

MessageKeys == {"detail", "message", "msg", "error"}

\* An object with a message field of its own or in its response body.
HasMessageField(x) ==
  /\ x.type = "object"
  /\ LET data == Get(Get(x, "response"), "data")
     IN \E k \in MessageKeys :
          k \in DOMAIN x.v \/ (data.type = "object" /\ k \in DOMAIN data.v)

\* C23: for an object with a message field, extractErrorMessage never
\* returns "[object Object]".
C23_NoObjectPlaceholder ==
  (Extracted /\ HasMessageField(ret.err)) => ret.value # Str("[object Object]")

\* An object whose only message field is one the function does not read at
\* top level has been serialised.
C23_Witness ==
  /\ Extracted
  /\ ret.err = Obj([error |-> Str("E_BAD")])
  /\ ret.value = Str("{\"error\":\"E_BAD\"}")

\* C24: extractErrorMessage returns a string for every value and every
\* fallback, and the fallback itself when serialising the value throws.
C24_ExtractTotal ==
  Extracted =>
    /\ IsString(ret.value)
    /\ StringifyThrows(ret.err) => ret.value = ret.fallback

\* A self-referring object has yielded the fallback.
C24_Witness ==
  /\ Extracted
  /\ ret.err = Cyclic
  /\ ret.value = Str("Login failed")

\* The entries of the validation body parseValidationErrors was given.
DetailOf(err) == Get(Get(Get(err, "response"), "data"), "detail")
ParsedEntries == IsArray(DetailOf(ret.err))
Items == DetailOf(ret.err).items

NoField == ""
\* The field an entry is filed under: its last loc segment that is a string
\* and no container name, username read as email; NoField without one.
EntryField(item) ==
  LET loc == IF IsArray(Get(item, "loc")) THEN Get(item, "loc").items ELSE <<>>
      usable == {i \in 1..Len(loc) : IsString(loc[i]) /\ loc[i].s \notin ReservedLoc}
  IN IF usable = {} THEN NoField
     ELSE LET last == CHOOSE i \in usable : \A j \in usable : j <= i
          IN IF loc[last].s = "username" THEN "email" ELSE loc[last].s

\* The message of an entry: its msg, or the entry itself when it is a string.
EntryMsg(item) ==
  IF IsString(Get(item, "msg")) THEN Get(item, "msg")
  ELSE IF IsString(item) THEN item
  ELSE Undefined

RECURSIVE MsgsFor(_, _)
\* The non-empty messages of the entries filed under f, in arrival order.
MsgsFor(items, f) ==
  IF items = <<>> THEN <<>>
  ELSE LET item == Head(items)
       IN (IF Truthy(item) /\ EntryField(item) = f /\ Truthy(EntryMsg(item))
           THEN <<EntryMsg(item).s>> ELSE <<>>) \o MsgsFor(Tail(items), f)

\* C25: username never is a key of fieldErrors, each field's list holds the
\* messages of the entries that target it (username counted as email) in
\* arrival order, and nonFieldErrors is empty when every entry resolves to
\* a field.
C25_AliasAndOrder ==
  (Parsed /\ ParsedEntries) =>
    LET fieldErrors == ret.value.fieldErrors
    IN /\ \A i \in 1..Len(fieldErrors) :
            /\ fieldErrors[i].field # "username"
            /\ fieldErrors[i].msgs = MsgsFor(Items, fieldErrors[i].field)
       /\ (\A i \in 1..Len(Items) : Truthy(Items[i]) /\ EntryField(Items[i]) # NoField)
            => ret.value.nonFieldErrors = <<>>

\* An email entry followed by a username entry, both filed under email.
C25_Witness ==
  /\ Parsed
  /\ ParsedEntries
  /\ Len(Items) = 2
  /\ Get(Items[1], "loc") = Arr(<<Str("body"), Str("email")>>)
  /\ Get(Items[2], "loc") = Arr(<<Str("body"), Str("username")>>)
  /\ ret.value.fieldErrors =
       <<[field |-> "email", msgs |-> <<"too short", "field required">>]>>
  /\ ret.value.nonFieldErrors = <<>>

\* C26: nonFieldErrors holds, in arrival order, the non-empty message of
\* every entry whose loc has no usable field segment, and no such message
\* is in a fieldErrors list.
C26_UnattributedKept ==
  (Parsed /\ ParsedEntries) =>
    /\ ret.value.nonFieldErrors = MsgsFor(Items, NoField)
    /\ \A i \in 1..Len(Items) :
         (Truthy(Items[i]) /\ EntryField(Items[i]) = NoField /\ Truthy(EntryMsg(Items[i])))
           => \E n \in 1..Len(ret.value.nonFieldErrors) :
                ret.value.nonFieldErrors[n] = EntryMsg(Items[i]).s
    /\ \A i \in 1..Len(ret.value.fieldErrors) :
         Len(ret.value.fieldErrors[i].msgs)
           = Len(MsgsFor(Items, ret.value.fieldErrors[i].field))

\* A message located at ["body"] only, kept beside a field's message.
C26_Witness ==
  /\ Parsed
  /\ ParsedEntries
  /\ Len(Items) = 2
  /\ Get(Items[1], "loc") = Arr(<<Str("body")>>)
  /\ Get(Items[2], "loc") = Arr(<<Str("body"), Str("email")>>)
  /\ ret.value.nonFieldErrors = <<"too short">>
  /\ ret.value.fieldErrors = <<[field |-> "email", msgs |-> <<"field required">>]>>

\* C30: the keys of fieldErrors are exactly the fields the entries resolve
\* to, each the last loc segment that is a string and no container name
\* (numeric segments skipped, username read as email), and none of body,
\* query, path, form, header is ever a key.
C30_FieldResolution ==
  (Parsed /\ ParsedEntries) =>
    LET fieldErrors == ret.value.fieldErrors
    IN /\ \A i \in 1..Len(fieldErrors) : fieldErrors[i].field \notin ReservedLoc
       /\ {fieldErrors[i].field : i \in 1..Len(fieldErrors)}
            = {EntryField(Items[i]) : i \in {j \in 1..Len(Items) : Truthy(Items[j])}}
                \ {NoField}

\* A loc that ends in an index and a loc that ends in a container name,
\* each resolved to the field before it.
C30_Witness ==
  /\ Parsed
  /\ ParsedEntries
  /\ Len(Items) = 2
  /\ Get(Items[1], "loc") = Arr(<<Str("body"), Str("items"), Num(0)>>)
  /\ Get(Items[2], "loc") = Arr(<<Str("email"), Str("body")>>)
  /\ ret.value.fieldErrors[1].field = "items"
  /\ ret.value.fieldErrors[2].field = "email"

(***************************************************************************)
(* services/api.js on its own: the base URL, setToken, the request         *)
(* interceptor and the response interceptor's rejection handler.           *)
(***************************************************************************)
\* process.env.REACT_APP_BACKEND_URL: unset, empty, blank, or a URL.
EnvSettings == {Undefined, Str(""), Str("  "), Str("https://api.tata.co.in")}

\* String.prototype.trim, for the settings above.
Trim(x) == IF x.s = "  " THEN Str("") ELSE x

\* window.location of the page, or Undefined where there is no window.
Locations ==
  {Obj([protocol |-> Str(proto), hostname |-> Str(host), port |-> Str(port)]) :
     proto \in {"http:", "https:"}, host \in {"localhost", "app.tata.co.in"},
     port \in {"3000", "8080", ""}}
    \cup {Undefined}

\* getBaseUrl with the environment setting alone.
EnvOnlyBaseUrl(env, location) == Trim(Or(env, Str("")))

\* getBaseUrl(), given the environment setting and window.location.
getBaseUrl(env, location) ==
  LET ENV_BASE == Trim(Or(env, Str("")))
  IN IF Truthy(ENV_BASE) THEN ENV_BASE
     ELSE IF Truthy(location) /\ Get(location, "port") = Str("3000")
     THEN Str(Get(location, "protocol").s \o "//" \o Get(location, "hostname").s \o ":3001")
     ELSE Str("")

\* What callers hand to setToken.
TokenArguments == {Null, Undefined, Str(""), Str("t1"), Str("t2")}

\* The calls the gateway functions make.
GatewayCalls ==
  {<<"POST", "/auth/login">>, <<"POST", "/auth/signup">>, <<"GET", "/dashboard/me">>,
   <<"PUT", "/account/plan">>}

\* The module as loaded: currentToken is null and nothing has been called.
AdapterInit ==
  /\ localStorage = [auth_token |-> Absent, auth_user |-> Absent]
  /\ token = Null
  /\ user = Null
  /\ loading = FALSE
  /\ error = Null
  /\ validationErrors = <<>>
  /\ currentToken = Null
  /\ inflight = [i \in Slots |-> Idle]
  /\ ret = [op |-> "load", lastSet |-> Null]
  /\ sent = <<>>
  /\ delivered = None

\* setToken(t); lastSet keeps the argument of the latest call.
CallSetToken(t) ==
  /\ currentToken' = setToken(t)
  /\ ret' = [op |-> "setToken", lastSet |-> t]
  /\ sent' = <<>>
  /\ delivered' = None
  /\ UNCHANGED <<token, user, loading, error, validationErrors, localStorage, inflight>>

\* A gateway function issues its request through the request interceptor.
CallGateway(method, path) ==
  /\ sent' = <<Request(method, path, currentToken)>>
  /\ ret' = [op |-> "request", lastSet |-> ret.lastSet]
  /\ delivered' = None
  /\ UNCHANGED <<token, user, loading, error, validationErrors, localStorage,
                 currentToken, inflight>>

\* The transport fails with raw; the caller catches what the response
\* interceptor rejects with.
CallRejected(raw) ==
  /\ delivered' = ResponseRejected(raw)
  /\ ret' = [op |-> "reject", raw |-> raw, lastSet |-> ret.lastSet]
  /\ sent' = <<>>
  /\ UNCHANGED <<token, user, loading, error, validationErrors, localStorage,
                 currentToken, inflight>>

\* getBaseUrl() evaluated for a deployment.
CallGetBaseUrl(env, location) ==
  /\ ret' = [op |-> "getBaseUrl", env |-> env, location |-> location,
             value |-> getBaseUrl(env, location), lastSet |-> ret.lastSet]
  /\ sent' = <<>>
  /\ delivered' = None
  /\ UNCHANGED <<token, user, loading, error, validationErrors, localStorage,
                 currentToken, inflight>>

AdapterNext ==
  \/ \E t \in TokenArguments : CallSetToken(t)
  \/ \E call \in GatewayCalls : CallGateway(call[1], call[2])
  \/ \E raw \in TransportErrors : CallRejected(raw)
  \/ \E env \in EnvSettings, location \in Locations : CallGetBaseUrl(env, location)

AdapterSpec == AdapterInit /\ [][AdapterNext]_vars

\* C27 as stated: a request carries Authorization: Bearer t exactly when
\* the latest setToken(t) had a non-null t, and none after setToken(null).
C27_BearerIffNonNull ==
  ret.op = "request" =>
    sent[1].Authorization =
      IF Present(ret.lastSet) THEN Str("Bearer " \o ret.lastSet.s) ELSE Undefined

\* C27 as amended: a request carries Authorization: Bearer t exactly when
\* the latest setToken(t) had a non-empty string t; after setToken(null),
\* setToken(undefined) or setToken("") it carries no Authorization header.
C27_BearerIffNonEmpty ==
  ret.op = "request" =>
    /\ Len(sent) = 1
    /\ sent[1].Authorization =
         IF IsString(ret.lastSet) /\ ret.lastSet.s # ""
         THEN Str("Bearer " \o ret.lastSet.s) ELSE Undefined

\* A request issued after setToken("t1").
C27_Witness ==
  /\ ret.op = "request"
  /\ ret.lastSet = Str("t1")
  /\ sent[1].Authorization = Str("Bearer t1")

\* C28: what the caller catches carries the response of the transport's
\* failure unchanged: a response with its status and body when the server
\* answered, none when no answer was received, rewrapped or not.
C28_ResponsePreserved ==
  ret.op = "reject" =>
    /\ Get(delivered, "response") = Get(ret.raw, "response")
    /\ ret.raw \in {Raw422, Raw422Fields, Raw400, Raw401} =>
         /\ Get(Get(delivered, "response"), "status").type = "number"
         /\ Get(Get(delivered, "response"), "data") = Get(Get(ret.raw, "response"), "data")
    /\ ret.raw \in {RawNetwork, RawTimeout} => ~Truthy(Get(delivered, "response"))

\* A 401 has been rewrapped with its response kept.
C28_Witness ==
  /\ ret.op = "reject"
  /\ ret.raw = Raw401
  /\ Get(delivered, "message") = Str(Friendly401)
  /\ Get(Get(delivered, "response"), "status") = Num(401)

SettingAbsent(env) == ~Truthy(Trim(Or(env, Str(""))))

\* C29 as stated: with the backend-URL setting unset or blank the base URL
\* is empty, whatever the page's host and port.
C29_AbsentMeansSameOrigin ==
  (ret.op = "getBaseUrl" /\ SettingAbsent(ret.env)) => ret.value = Str("")

\* C29 as amended: with the setting unset or blank the base URL is empty,
\* except for a page served on port 3000, where it is the page's protocol
\* and host name with port 3001.
C29_AbsentMeansSameOriginOrDev ==
  (ret.op = "getBaseUrl" /\ SettingAbsent(ret.env)) =>
    IF Truthy(ret.location) /\ Get(ret.location, "port") = Str("3000")
    THEN \E proto \in {"http:", "https:"}, host \in {"localhost", "app.tata.co.in"} :
           /\ Get(ret.location, "protocol") = Str(proto)
           /\ Get(ret.location, "hostname") = Str(host)
           /\ ret.value = Str(proto \o "//" \o host \o ":3001")
    ELSE ret.value = Str("")

\* The development page on port 3000 with no setting.
C29_Witness ==
  /\ ret.op = "getBaseUrl"
  /\ ret.env = Undefined
  /\ Get(ret.location, "port") = Str("3000")
  /\ ret.value = Str("http://localhost:3001")

(***************************************************************************)
(* Further properties of the error normaliser.                             *)
(***************************************************************************)
RECURSIVE MsgValues(_)
\* The msg values the entries of a validation list carry, in entry order;
\* an entry without a msg contributes nothing.
MsgValues(items) ==
  IF items = <<>> THEN <<>>
  ELSE (IF Truthy(Get(Head(items), "msg")) THEN <<Get(Head(items), "msg").s>> ELSE <<>>)
         \o MsgValues(Tail(items))

\* A failure whose response body lists validation entries carrying a msg.
ListsMessages(err) ==
  /\ IsArray(DetailOf(err))
  /\ MsgValues(DetailOf(err).items) # <<>>

\* C31: for a failure whose response body lists validation entries,
\* extractErrorMessage returns the msg values of the entries, in entry
\* order, joined with "; ".
C31_JoinedMessages ==
  (Extracted /\ ListsMessages(ret.err)) =>
    ret.value = Str(Join(MsgValues(DetailOf(ret.err).items), "; "))

\* A failure with a response whose body offers nothing to show: no body, or
\* a structured one with no detail, message, msg or error string and no
\* validation message.
NoUsableBody(err) ==
  LET data == Get(Get(err, "response"), "data")
      detail == Get(data, "detail")
  IN /\ Truthy(Get(err, "response"))
     /\ \/ ~Present(data)
        \/ /\ data.type = "object"
           /\ BodyText(err) = Undefined
           /\ IsArray(detail) =>
                \A i \in 1..Len(detail.items) : ~Truthy(EntryMsg(detail.items[i]))

\* "<status> <statusText>" with surrounding white space removed.
TrimmedStatusLine(response) ==
  LET status == NumText(Get(response, "status").n)
      text == Get(response, "statusText").s
  IN IF text = "" THEN Str(status) ELSE Str(status \o " " \o text)

\* C32: for a failure with a response and no usable body,
\* extractErrorMessage returns "<status> <statusText>" trimmed, also when
\* the status text is empty. Stated for the failures that are no Error
\* instance, which the response branch is open to.
C32_StatusLineFallback ==
  (Extracted /\ NoUsableBody(ret.err) /\ ~IsErrorInstance(ret.err)) =>
    ret.value = TrimmedStatusLine(Get(ret.err, "response"))

(***************************************************************************)
(* Further properties of the session store.                                *)
(***************************************************************************)
\* C33: with operations run one at a time, a login or signup that returns
\* { ok: true } leaves token and user both non-null, whatever the token
\* response and the profile response hold.
C33_OkMeansAuthenticated ==
  (ret.op \in {"login", "signup"} /\ ret.path = "return" /\ ret.ok = TRUE) =>
    (Present(token) /\ Present(user))

\* C34: the profile fetch a login or signup issues right after it acquired
\* a token leaves with Authorization: Bearer <the token just acquired>.
C34_ProfileFetchBearsNewToken ==
  (ret.op \in {"login", "signup"} /\ ret.path = "await"
     /\ Truthy(Get(delivered, "access_token"))) =>
    sent = <<[method |-> "GET", path |-> "/dashboard/me",
              Authorization |-> Str("Bearer " \o Get(delivered, "access_token").s)]>>

\* C35: whenever a gateway request is issued, it leaves with the header the
\* session's token of that moment calls for: the adapter's token equals the
\* session's, and no request carries a bearer the session has dropped.
C35_RequestsBearSessionToken ==
  \A n \in 1..Len(sent) :
    sent[n].Authorization =
      (IF Truthy(token) THEN Str("Bearer " \o token.s) ELSE Undefined)

\* The step just taken was the return of the last suspended login, signup,
\* refreshProfile or updatePlan.
LastCompleted ==
  /\ ret.op \in {"login", "signup", "refreshProfile", "updatePlan"}
  /\ ret.path \in {"return", "catch"}
  /\ ~AnyInFlight

\* C36: when logout() was invoked while a login, signup, refreshProfile or
\* updatePlan was suspended, and that invocation completes next (nothing
\* invoked in between), token and user are null and both durable keys are
\* absent.
C36_LogoutNotUndone ==
  [][(ret.op = "logout" /\ AnyInFlight /\ LastCompleted') =>
       (token' = Null /\ user' = Null /\ StorageCleared')]_vars

\* A login or signup has just returned { ok: true } with a token and a
\* profile in session while the startup profile fetch is still in flight.
FreshSessionDuringStartup ==
  /\ ret.op \in {"login", "signup"} /\ ret.path = "return" /\ ret.ok = TRUE
  /\ Truthy(token) /\ Truthy(user)
  /\ \E i \in Slots : inflight[i].kind = "init"

\* C37: when a login or signup completed successfully while the startup
\* profile fetch was in flight and that fetch then fails, token, user and
\* the durable entries of the fresh session are left as they are.
C37_StartupFailureKeepsFreshSession ==
  [][(FreshSessionDuringStartup /\ ret'.op = "init" /\ ret'.path = "catch") =>
       (token' = token /\ user' = user /\ localStorage' = localStorage)]_vars

\* C38: a successful updatePlan stores the user record that is current when
\* it completes with only package_tier replaced by the tier of the
\* response, also when a refresh or login stored a newer record during the
\* call.
C38_UpdatePlanKeepsCurrentUser ==
  [][(ret'.op = "updatePlan" /\ ret'.path = "return" /\ Truthy(user)) =>
       user' = WithProp(user, "package_tier", Get(delivered', "package_tier"))]_vars

(***************************************************************************)
(* Further properties of parseValidationErrors.                            *)
(***************************************************************************)
RECURSIVE FieldMessages(_)
\* The messages of all the lists of fieldErrors, one list after the other.
FieldMessages(fieldErrors) ==
  IF fieldErrors = <<>> THEN <<>>
  ELSE Head(fieldErrors).msgs \o FieldMessages(Tail(fieldErrors))

\* Every message of a result.
ResultMessages(value) == FieldMessages(value.fieldErrors) \o value.nonFieldErrors

\* The entries that carry a message: a non-empty msg, or a non-empty bare
\* string.
WithMessage(items) ==
  {i \in 1..Len(items) : Truthy(items[i]) /\ Truthy(EntryMsg(items[i]))}

Count(seq, x) == Cardinality({n \in 1..Len(seq) : seq[n] = x})

\* C39: for a list-shaped validation body, parseValidationErrors puts the
\* message of every entry that has one into the result exactly once, in the
\* list of the entry's field or in nonFieldErrors: the result holds as many
\* messages as there are entries with a message, each text as often as the
\* entries carry it, and nothing else.
C39_MessagesConserved ==
  (Parsed /\ ParsedEntries) =>
    LET messages == ResultMessages(ret.value)
        entries == WithMessage(Items)
    IN /\ Len(messages) = Cardinality(entries)
       /\ \A n \in 1..Len(messages) :
            Count(messages, messages[n])
              = Cardinality({i \in entries : EntryMsg(Items[i]).s = messages[n]})
       /\ \A i \in entries :
            LET f == EntryField(Items[i])
                m == EntryMsg(Items[i]).s
            IN IF f = NoField
               THEN Count(ret.value.nonFieldErrors, m) >= 1
               ELSE \E k \in 1..Len(ret.value.fieldErrors) :
                      /\ ret.value.fieldErrors[k].field = f
                      /\ Count(ret.value.fieldErrors[k].msgs, m) >= 1

\* The same text carried by an entry with a field and by one without: it
\* is kept once in the field's list and once in nonFieldErrors.
C39_Witness ==
  /\ Parsed
  /\ ParsedEntries
  /\ Len(Items) = 2
  /\ Items[1] = Obj([loc |-> Arr(<<Str("body"), Str("email")>>), msg |-> Str("too short")])
  /\ Items[2] = Obj([loc |-> Arr(<<Str("body")>>), msg |-> Str("too short")])
  /\ ret.value.fieldErrors = <<[field |-> "email", msgs |-> <<"too short">>]>>
  /\ ret.value.nonFieldErrors = <<"too short">>

\* C40: every key of the fieldErrors parseValidationErrors returns maps to
\* a non-empty list of messages; an entry that resolves to a field but has
\* no msg creates no key.
C40_NoEmptyFieldList ==
  (Parsed /\ ParsedEntries) =>
    \A k \in 1..Len(ret.value.fieldErrors) : ret.value.fieldErrors[k].msgs # <<>>

====
